---------------------------- MODULE Spec2Model ----------------------------
(***************************************************************************)
(* Model of the two list-view controllers of saatchi_customized_accrued_   *)
(* revenue:                                                                *)
(*   - SaatchiAccruedRevenueListController.OnTestClick (sync_js_button.js) *)
(*     confirm -> orm.call -> branch on the result -> notify -> reload     *)
(*   - UnfoldAllListController.onUnfoldAllClick / onFoldAllClick           *)
(*     batch clicks on the group headers of the rendered list              *)
(* The host services (dialog, orm, notification, action, model.root.load,  *)
(* the DOM) are the environment: every call the controllers make to them   *)
(* is recorded, and every promise they return is settled by an action.     *)
(***************************************************************************)
EXTENDS Integers, Sequences, FiniteSets, TLC

(***************************************************************************)
(* Bounds of the model.                                                    *)
(***************************************************************************)
\* number of times the sync button is pressed
MaxTriggers == 2
\* the numeric results of the remote call range over -1 .. MaxCount
MaxCount == 2
\* number of group headers the document may hold
MaxHeaders == 3
\* number of fold / unfold button presses
MaxOps == 2

(***************************************************************************)
(* JavaScript values, as far as the result of the remote call needs them.  *)
(* A string is the sequence of its characters.                             *)
(***************************************************************************)
JSNumber(n) == [kind |-> "number", num |-> n]
JSNaN == [kind |-> "NaN"]
JSNull == [kind |-> "null"]
JSUndefined == [kind |-> "undefined"]
JSBool(b) == [kind |-> "boolean", bool |-> b]
JSString(chars) == [kind |-> "string", chars |-> chars]
JSArray(elems) == [kind |-> "array", elems |-> elems]
JSObject(hasType, type) == [kind |-> "object", hasType |-> hasType, type |-> type]

Digits == <<"0", "1", "2", "3", "4", "5", "6", "7", "8", "9">>

IsDigit(c) == \E i \in 1..Len(Digits) : Digits[i] = c

DigitVal(c) == (CHOOSE i \in 1..Len(Digits) : Digits[i] = c) - 1

\* ToBoolean
Truthy(v) ==
  CASE v.kind = "number" -> v.num # 0
    [] v.kind = "NaN" -> FALSE
    [] v.kind = "null" -> FALSE
    [] v.kind = "undefined" -> FALSE
    [] v.kind = "boolean" -> v.bool
    [] v.kind = "string" -> Len(v.chars) > 0
    [] v.kind = "array" -> TRUE
    [] v.kind = "object" -> TRUE

\* v.type: the property read of line 30; only the objects of this model
\* carry an own "type" property
GetType(v) ==
  IF v.kind = "object" /\ v.hasType THEN v.type ELSE JSUndefined

RECURSIVE NatToChars(_)
NatToChars(n) ==
  IF n < 10 THEN <<Digits[n + 1]>>
  ELSE NatToChars(n \div 10) \o <<Digits[(n % 10) + 1]>>

\* Number::toString for the integers
NumberToChars(n) == IF n < 0 THEN <<"-">> \o NatToChars(0 - n) ELSE NatToChars(n)

RECURSIVE JoinNumbers(_)
\* Array.prototype.join(",") of an array of integers
JoinNumbers(elems) ==
  IF Len(elems) = 0 THEN <<>>
  ELSE IF Len(elems) = 1 THEN NumberToChars(elems[1])
  ELSE NumberToChars(elems[1]) \o <<",">> \o JoinNumbers(Tail(elems))

\* ToString, the conversion a template literal applies to ${result}
ToStringChars(v) ==
  CASE v.kind = "number" -> NumberToChars(v.num)
    [] v.kind = "NaN" -> <<"N", "a", "N">>
    [] v.kind = "null" -> <<"n", "u", "l", "l">>
    [] v.kind = "undefined" -> <<"u", "n", "d", "e", "f", "i", "n", "e", "d">>
    [] v.kind = "boolean" -> IF v.bool THEN <<"t", "r", "u", "e">>
                             ELSE <<"f", "a", "l", "s", "e">>
    [] v.kind = "string" -> v.chars
    [] v.kind = "array" -> JoinNumbers(v.elems)
    [] v.kind = "object" -> <<"[", "o", "b", "j", "e", "c", "t", " ",
                              "O", "b", "j", "e", "c", "t", "]">>

RECURSIVE Concat(_)
\* the characters as one string
Concat(chars) == IF Len(chars) = 0 THEN "" ELSE Head(chars) \o Concat(Tail(chars))

RECURSIVE DigitsToNat(_, _)
DigitsToNat(chars, acc) ==
  IF Len(chars) = 0 THEN acc
  ELSE DigitsToNat(Tail(chars), 10 * acc + DigitVal(Head(chars)))

AllDigits(chars) == Len(chars) > 0 /\ \A i \in 1..Len(chars) : IsDigit(chars[i])

\* StringToNumber for signed decimal integers: the empty string is 0, and
\* what is no numeral is NaN
StringToNumber(chars) ==
  IF Len(chars) = 0 THEN JSNumber(0)
  ELSE IF AllDigits(chars) THEN JSNumber(DigitsToNat(chars, 0))
  ELSE IF Head(chars) = "-" /\ AllDigits(Tail(chars))
    THEN JSNumber(0 - DigitsToNat(Tail(chars), 0))
  ELSE IF Head(chars) = "+" /\ AllDigits(Tail(chars))
    THEN JSNumber(DigitsToNat(Tail(chars), 0))
  ELSE JSNaN

\* ToNumber(ToPrimitive(v, number)), the conversion `v > 0` applies to v
ToNumber(v) ==
  CASE v.kind = "number" -> v
    [] v.kind = "NaN" -> JSNaN
    [] v.kind = "null" -> JSNumber(0)
    [] v.kind = "undefined" -> JSNaN
    [] v.kind = "boolean" -> IF v.bool THEN JSNumber(1) ELSE JSNumber(0)
    [] v.kind = "string" -> StringToNumber(v.chars)
    [] v.kind = "array" -> StringToNumber(ToStringChars(v))
    [] v.kind = "object" -> StringToNumber(ToStringChars(v))

\* v > n for a number n: false when v converts to NaN
GreaterThan(v, n) == ToNumber(v).kind = "number" /\ ToNumber(v).num > n


(***************************************************************************)
(* The values the remote call, the action service and the reload may       *)
(* settle with.                                                            *)
(***************************************************************************)
ActWindow == JSString(<<"i", "r", ".", "a", "c", "t", "i", "o", "n", "s", ".",
                        "a", "c", "t", "_", "w", "i", "n", "d", "o", "w">>)

\* an object with a type field, as the server returns to open a wizard
ActionResults == {JSObject(TRUE, ActWindow)}

NumberResults == {JSNumber(n) : n \in -1..MaxCount} \cup {JSNaN}

FalsyResults == {JSNull, JSUndefined, JSBool(FALSE)}

\* neither an object with a type field nor a number
OtherResults ==
  {JSBool(TRUE), JSString(<<"5">>), JSString(<<>>), JSString(<<"a">>),
   JSArray(<<5>>), JSArray(<<>>),
   JSObject(FALSE, JSUndefined), JSObject(TRUE, JSString(<<>>))}

Results == ActionResults \cup NumberResults \cup FalsyResults \cup OtherResults

Errors == {"RPCError", "ConnectionLostError"}

NoValue == [kind |-> "none"]

NoError == "none"

Flows == 1..MaxTriggers

(***************************************************************************)
(* The calls the controller makes to the host services.                    *)
(***************************************************************************)
DialogProps ==
  [title |-> "Confirm Action",
   body |-> "Are you sure you want to sync new records for accrual? This will process all eligible sale orders."]

OrmCall ==
  [svc |-> "orm.call", model |-> "saatchi.accrued_revenue",
   method |-> "sync_new_records_for_accrual", args |-> << <<>> >>]

NotificationAdd(message, type, title) ==
  [svc |-> "notification.add", message |-> message, type |-> type, title |-> title]

DoAction(action) == [svc |-> "action.doAction", action |-> action]

RootLoad == [svc |-> "model.root.load"]

Render(force) == [svc |-> "render", force |-> force]

VARIABLES
  nTriggers,    \* OnTestClick invocations so far
  dialogAdds,   \* the dialogService.add calls, in order
  nConfirms,    \* confirm callbacks the dialogs have invoked
  nCancels,     \* cancel callbacks the dialogs have invoked
  pc,           \* per dialog: where its confirm callback stands
  result,       \* per dialog: `result`, the value orm.call resolved with
  trace,        \* per dialog: the service calls its callbacks made, in order
  rejectedBy,   \* per dialog: the awaited call that rejected, if any
  rejection,    \* per dialog: the value that call rejected with
  thrown,       \* per dialog: the value the confirm callback's promise rejected with
  groupHeaders, \* the .o_group_header elements of the document
  hasContent,   \* per header: carries class o_group_has_content
  caret,        \* per header: the caret icon it renders
  clicks,       \* per header: click events dispatched on it so far
  pending,      \* per header: clicks the host has not yet rendered
  nOps,         \* fold / unfold button presses so far
  lastOp,       \* the last of them
  opLog         \* all of them in order, each with whether the host had
                \* rendered every earlier click when it was pressed

syncVars == <<nTriggers, dialogAdds, nConfirms, nCancels, pc, result, trace,
              rejectedBy, rejection, thrown>>

foldVars == <<groupHeaders, hasContent, caret, clicks, pending, nOps, lastOp, opLog>>

vars == <<syncVars, foldVars>>

(***************************************************************************)
(* SaatchiAccruedRevenueListController                                     *)
(***************************************************************************)
Put(f, d, v) == [f EXCEPT ![d] = v]

Called(d, calls) == Put(trace, d, trace[d] \o calls)

\* line 30: result && result.type
IsAction(res) == Truthy(res) /\ Truthy(GetType(res))

\* IsPositive with a fault: result >= 0
IsPositiveOrZero(res) == ToNumber(res).kind = "number" /\ ToNumber(res).num >= 0

\* line 34: result > 0
IsPositive(res) == GreaterThan(res, 0)

\* SuccessMessage with a fault: a plain string literal, not a template
SuccessMessageNotInterpolated(res) ==
  "Successfully created ${result} new draft for accrual."

\* line 36: `Successfully created ${result} new draft for accrual.`
SuccessMessage(res) ==
  "Successfully created " \o Concat(ToStringChars(res)) \o " new draft for accrual."

\* line 43
InfoMessage == "No new records were created for accrual."

\* lines 34-46: the notification of the two branches that are not the action's
BranchNotification(res) ==
  IF IsPositive(res)
    THEN NotificationAdd(SuccessMessage(res), "success", "Success!")
    ELSE NotificationAdd(InfoMessage, "info", "Info")

\* OnTestClick with a fault: no new dialog while a remote call is in flight
OnTestClickLocked ==
  /\ \A d \in Flows : pc[d] # "orm.call"
  /\ nTriggers < MaxTriggers
  /\ Len(dialogAdds) < MaxTriggers
  /\ nTriggers' = nTriggers + 1
  /\ dialogAdds' = Append(dialogAdds, DialogProps)
  /\ pc' = Put(pc, Len(dialogAdds) + 1, "dialog")
  /\ UNCHANGED <<nConfirms, nCancels, result, trace, rejectedBy, rejection, thrown>>
  /\ UNCHANGED foldVars

\* OnTestClick, lines 17-56: adds one confirmation dialog and returns
OnTestClick ==
  /\ nTriggers < MaxTriggers
  /\ Len(dialogAdds) < MaxTriggers
  /\ nTriggers' = nTriggers + 1
  /\ dialogAdds' = Append(dialogAdds, DialogProps)
  /\ pc' = Put(pc, Len(dialogAdds) + 1, "dialog")
  /\ UNCHANGED <<nConfirms, nCancels, result, trace, rejectedBy, rejection, thrown>>
  /\ UNCHANGED foldVars

\* the user chooses confirm: the callback of line 22 runs up to its first
\* await, the remote call of lines 23-27
Confirm(d) ==
  /\ pc[d] = "dialog"
  /\ nConfirms' = nConfirms + 1
  /\ trace' = Called(d, <<OrmCall>>)
  /\ pc' = Put(pc, d, "orm.call")
  /\ UNCHANGED <<nTriggers, dialogAdds, nCancels, result, rejectedBy, rejection, thrown>>
  /\ UNCHANGED foldVars

\* Cancel with a fault: the cancel callback starts the sync as well
CancelSyncs(d) ==
  /\ pc[d] = "dialog"
  /\ nCancels' = nCancels + 1
  /\ trace' = Called(d, <<OrmCall>>)
  /\ pc' = Put(pc, d, "cancelled")
  /\ UNCHANGED <<nTriggers, dialogAdds, nConfirms, result, rejectedBy, rejection, thrown>>
  /\ UNCHANGED foldVars

\* the user chooses cancel: the callback of lines 52-54
Cancel(d) ==
  /\ pc[d] = "dialog"
  /\ nCancels' = nCancels + 1
  /\ pc' = Put(pc, d, "cancelled")
  /\ UNCHANGED <<nTriggers, dialogAdds, nConfirms, result, trace, rejectedBy,
                 rejection, thrown>>
  /\ UNCHANGED foldVars

\* ActionBranch with a fault: the notification is not in an else branch
ActionBranchNotifies(d, res) ==
  /\ trace' = Called(d, <<DoAction(res), BranchNotification(res)>>)
  /\ pc' = Put(pc, d, "doAction")

\* lines 29-32: the result is an action; the callback awaits doAction
ActionBranch(d, res) ==
  /\ trace' = Called(d, <<DoAction(res)>>)
  /\ pc' = Put(pc, d, "doAction")

\* NotifyBranch with a fault: the reload is not awaited before render
NotifyBranchNoAwait(d, res) ==
  /\ trace' = Called(d, <<BranchNotification(res), RootLoad, Render(TRUE)>>)
  /\ pc' = Put(pc, d, "load")

\* lines 33-49: the result is no action; the callback notifies, starts the
\* reload and awaits it
NotifyBranch(d, res) ==
  /\ trace' = Called(d, <<BranchNotification(res), RootLoad>>)
  /\ pc' = Put(pc, d, "load")

\* the remote call resolves with res: the callback resumes at line 23 and
\* runs to its next await
OrmResolve(d, res) ==
  /\ pc[d] = "orm.call"
  /\ result' = Put(result, d, res)
  /\ IF IsAction(res) THEN ActionBranch(d, res) ELSE NotifyBranch(d, res)
  /\ UNCHANGED <<nTriggers, dialogAdds, nConfirms, nCancels, rejectedBy, rejection,
                 thrown>>
  /\ UNCHANGED foldVars

\* an awaited call rejects with err: nothing in lines 22-51 catches it, so
\* the callback's promise rejects with the same value
Rejects(d, at, err) ==
  /\ pc[d] = at
  /\ rejectedBy' = Put(rejectedBy, d, at)
  /\ rejection' = Put(rejection, d, err)
  /\ thrown' = Put(thrown, d, err)
  /\ pc' = Put(pc, d, "rejected")
  /\ UNCHANGED <<nTriggers, dialogAdds, nConfirms, nCancels, result, trace>>
  /\ UNCHANGED foldVars

\* OrmReject with a fault: the rejection is caught and reported as no records
OrmRejectCaught(d, err) ==
  /\ pc[d] = "orm.call"
  /\ rejectedBy' = Put(rejectedBy, d, "orm.call")
  /\ rejection' = Put(rejection, d, err)
  /\ trace' = Called(d, <<NotificationAdd(InfoMessage, "info", "Info"), RootLoad>>)
  /\ pc' = Put(pc, d, "load")
  /\ UNCHANGED <<nTriggers, dialogAdds, nConfirms, nCancels, result, thrown>>
  /\ UNCHANGED foldVars

\* OrmReject with a fault: the remote call is issued again
OrmRejectRetries(d, err) ==
  /\ pc[d] = "orm.call"
  /\ trace' = Called(d, <<OrmCall>>)
  /\ UNCHANGED <<nTriggers, dialogAdds, nConfirms, nCancels, pc, result, rejectedBy,
                 rejection, thrown>>
  /\ UNCHANGED foldVars

\* line 23
OrmReject(d, err) == Rejects(d, "orm.call", err)

\* line 31
DoActionReject(d, err) == Rejects(d, "doAction", err)

\* line 49
LoadReject(d, err) == Rejects(d, "load", err)

\* DoActionResolve with a fault: the action branch returns after doAction
DoActionReturns(d) ==
  /\ pc[d] = "doAction"
  /\ pc' = Put(pc, d, "done")
  /\ UNCHANGED <<nTriggers, dialogAdds, nConfirms, nCancels, result, trace, rejectedBy,
                 rejection, thrown>>
  /\ UNCHANGED foldVars

\* doAction resolves: the callback resumes after line 31, falls out of the
\* if and starts the reload of line 49
DoActionResolve(d) ==
  /\ pc[d] = "doAction"
  /\ trace' = Called(d, <<RootLoad>>)
  /\ pc' = Put(pc, d, "load")
  /\ UNCHANGED <<nTriggers, dialogAdds, nConfirms, nCancels, result, rejectedBy,
                 rejection, thrown>>
  /\ UNCHANGED foldVars

\* the reload resolves: line 50, and the callback returns
LoadResolve(d) ==
  /\ pc[d] = "load"
  /\ trace' = Called(d, <<Render(TRUE)>>)
  /\ pc' = Put(pc, d, "done")
  /\ UNCHANGED <<nTriggers, dialogAdds, nConfirms, nCancels, result, rejectedBy,
                 rejection, thrown>>
  /\ UNCHANGED foldVars

(***************************************************************************)
(* UnfoldAllListController                                                 *)
(***************************************************************************)
HeaderIds == 1..MaxHeaders

Carets == {"fa-caret-right", "fa-caret-down"}

\* document.querySelectorAll('.o_group_header.o_group_has_content')
ContentHeaders == {h \in groupHeaders : hasContent[h]}

\* FoldedHeaders with a fault: the selector lacks .o_group_has_content
FoldedAnyHeaders == {h \in groupHeaders : caret[h] = "fa-caret-right"}

\* line 13: the headers that hold a .fa-caret-right
FoldedHeaders == {h \in ContentHeaders : caret[h] = "fa-caret-right"}

\* UnfoldedHeaders with a fault: the filter of onUnfoldAllClick, copied
UnfoldedWrongCaret == {h \in ContentHeaders : caret[h] = "fa-caret-right"}

\* line 21: the headers that hold a .fa-caret-down
UnfoldedHeaders == {h \in ContentHeaders : caret[h] = "fa-caret-down"}

\* ClickAll with a fault: every header of the array is clicked twice
ClickAllTwice(headers) ==
  /\ clicks' = [h \in groupHeaders |-> IF h \in headers THEN clicks[h] + 2 ELSE clicks[h]]
  /\ pending' = [h \in groupHeaders |-> IF h \in headers THEN pending[h] + 2 ELSE pending[h]]

\* forEach(header => header.click()): one click on each header of the
\* array, none of them rendered before the handler returns
ClickAll(headers) ==
  /\ clicks' = [h \in groupHeaders |-> IF h \in headers THEN clicks[h] + 1 ELSE clicks[h]]
  /\ pending' = [h \in groupHeaders |-> IF h \in headers THEN pending[h] + 1 ELSE pending[h]]

\* no click is waiting for the host
Settled == \A h \in groupHeaders : pending[h] = 0

\* onUnfoldAllClick, lines 11-17
OnUnfoldAllClick ==
  /\ nOps < MaxOps
  /\ ClickAll(FoldedHeaders)
  /\ nOps' = nOps + 1
  /\ lastOp' = "unfoldAll"
  /\ opLog' = Append(opLog, [op |-> "unfoldAll", settled |-> Settled])
  /\ UNCHANGED <<groupHeaders, hasContent, caret>>
  /\ UNCHANGED syncVars

\* onFoldAllClick, lines 19-25
OnFoldAllClick ==
  /\ nOps < MaxOps
  /\ ClickAll(UnfoldedHeaders)
  /\ nOps' = nOps + 1
  /\ lastOp' = "foldAll"
  /\ opLog' = Append(opLog, [op |-> "foldAll", settled |-> Settled])
  /\ UNCHANGED <<groupHeaders, hasContent, caret>>
  /\ UNCHANGED syncVars

Toggled(c) == IF c = "fa-caret-right" THEN "fa-caret-down" ELSE "fa-caret-right"

\* the host handles one click on header h: it toggles the group and renders
\* the other caret
HostToggle(h) ==
  /\ h \in groupHeaders
  /\ pending[h] > 0
  /\ pending' = Put(pending, h, pending[h] - 1)
  /\ caret' = Put(caret, h, Toggled(caret[h]))
  /\ UNCHANGED <<groupHeaders, hasContent, clicks, nOps, lastOp, opLog>>
  /\ UNCHANGED syncVars

(***************************************************************************)
(* Specifications                                                          *)
(***************************************************************************)
InitSync ==
  /\ nTriggers = 0
  /\ dialogAdds = <<>>
  /\ nConfirms = 0
  /\ nCancels = 0
  /\ pc = [d \in Flows |-> "idle"]
  /\ result = [d \in Flows |-> NoValue]
  /\ trace = [d \in Flows |-> <<>>]
  /\ rejectedBy = [d \in Flows |-> "none"]
  /\ rejection = [d \in Flows |-> NoError]
  /\ thrown = [d \in Flows |-> NoError]

\* a document of up to MaxHeaders group headers, each with or without
\* content, each rendered folded or unfolded
InitDocument ==
  /\ groupHeaders \in SUBSET HeaderIds
  /\ hasContent \in [groupHeaders -> BOOLEAN]
  /\ caret \in [groupHeaders -> Carets]
  /\ clicks = [h \in groupHeaders |-> 0]
  /\ pending = [h \in groupHeaders |-> 0]
  /\ nOps = 0
  /\ lastOp = "none"
  /\ opLog = <<>>

\* a list without groups
InitNoGroups ==
  /\ groupHeaders = {}
  /\ hasContent = << >>
  /\ caret = << >>
  /\ clicks = << >>
  /\ pending = << >>
  /\ nOps = 0
  /\ lastOp = "none"
  /\ opLog = <<>>

Init == InitSync /\ InitNoGroups

Next ==
  \/ OnTestClick
  \/ \E d \in Flows : Confirm(d)
  \/ \E d \in Flows : Cancel(d)
  \/ \E d \in Flows, res \in Results : OrmResolve(d, res)
  \/ \E d \in Flows, err \in Errors : OrmReject(d, err)
  \/ \E d \in Flows : DoActionResolve(d)
  \/ \E d \in Flows, err \in Errors : DoActionReject(d, err)
  \/ \E d \in Flows : LoadResolve(d)
  \/ \E d \in Flows, err \in Errors : LoadReject(d, err)

\* the sync button's controller
Spec == Init /\ [][Next]_vars

FoldInit == InitSync /\ InitDocument

FoldNext ==
  \/ OnUnfoldAllClick
  \/ OnFoldAllClick
  \/ \E h \in HeaderIds : HostToggle(h)

\* the fold / unfold buttons' controller
FoldSpec == FoldInit /\ [][FoldNext]_vars

(***************************************************************************)
(* Properties                                                              *)
(***************************************************************************)
CallsTo(d, svc) == SelectSeq(trace[d], LAMBDA c : c.svc = svc)

NotificationsOfType(d, type) ==
  SelectSeq(CallsTo(d, "notification.add"), LAMBDA c : c.type = type)

\* the callback of dialog d has resumed after the remote call resolved
Resolved(d) == result[d] # NoValue

\* an object carrying a truthy type field
ActionLike(v) == v.kind = "object" /\ v.hasType /\ Truthy(v.type)

\* the reload has been started after the first k calls, render(true) has
\* been called iff the reload resolved, and nothing else was called
ReloadedAfter(d, k) ==
  /\ pc[d] \in {"load", "done", "rejected"}
  /\ Len(trace[d]) = IF pc[d] = "done" THEN k + 2 ELSE k + 1
  /\ trace[d][k + 1] = [svc |-> "model.root.load"]
  /\ pc[d] = "done" => trace[d][k + 2] = [svc |-> "render", force |-> TRUE]
  /\ pc[d] = "rejected" => rejectedBy[d] = "load"

\* C1: a dialog answered with cancel has made no remote call, added no
\* notification, called neither doAction nor model.root.load() nor render,
\* holds no result and has thrown nothing: nothing was done for its trigger.
C1_CancelDoesNothing ==
  \A d \in Flows :
    pc[d] = "cancelled" =>
      /\ trace[d] = <<>>
      /\ result[d] = NoValue
      /\ thrown[d] = NoError
      /\ rejectedBy[d] = "none"

C1_Witness ==
  \E d, e \in Flows : pc[d] = "cancelled" /\ pc[e] = "done"

\* C2: a confirmed sync whose result is a number n > 0 adds exactly one
\* notification, of type success, whose message holds n in decimal; it adds
\* no info notification and calls no doAction; the reload is started right
\* after the notification and render(true) follows once the reload resolved.
C2_PositiveCountNotifiesSuccess ==
  \A d \in Flows :
    (Resolved(d) /\ result[d].kind = "number" /\ result[d].num > 0) =>
      /\ trace[d][1].svc = "orm.call"
      /\ trace[d][2] =
           [svc |-> "notification.add",
            message |-> "Successfully created " \o ToString(result[d].num)
                          \o " new draft for accrual.",
            type |-> "success", title |-> "Success!"]
      /\ Len(CallsTo(d, "notification.add")) = 1
      /\ Len(NotificationsOfType(d, "info")) = 0
      /\ Len(CallsTo(d, "action.doAction")) = 0
      /\ ReloadedAfter(d, 2)

C2_Witness ==
  \E d \in Flows :
    /\ result[d] = JSNumber(2)
    /\ pc[d] = "done"
    /\ trace[d][2].message = "Successfully created 2 new draft for accrual."

\* 0, a negative number, or a falsy value
NoRecords(v) ==
  \/ v.kind = "number" /\ v.num <= 0
  \/ v.kind \in {"null", "undefined", "NaN"}
  \/ v.kind = "boolean" /\ ~v.bool
  \/ v.kind = "string" /\ v.chars = <<>>

\* C3: a confirmed sync whose result is 0, a negative number or a falsy
\* value adds exactly one notification, of type info, with the message
\* "No new records were created for accrual."; it adds no success
\* notification and calls no doAction; the reload is started right after
\* the notification and render(true) follows once the reload resolved.
C3_NoRecordsNotifiesInfo ==
  \A d \in Flows :
    (Resolved(d) /\ NoRecords(result[d])) =>
      /\ trace[d][1].svc = "orm.call"
      /\ trace[d][2] =
           [svc |-> "notification.add",
            message |-> "No new records were created for accrual.",
            type |-> "info", title |-> "Info"]
      /\ Len(CallsTo(d, "notification.add")) = 1
      /\ Len(NotificationsOfType(d, "success")) = 0
      /\ Len(CallsTo(d, "action.doAction")) = 0
      /\ ReloadedAfter(d, 2)

C3_Witness ==
  /\ \E d \in Flows : result[d] = JSNumber(0) /\ pc[d] = "done"
  /\ \E d \in Flows : result[d] \in {JSNull, JSNumber(-1)} /\ pc[d] = "done"

\* C4: a confirmed sync whose result is an object with a truthy type field
\* calls doAction exactly once, with that very object, and adds no
\* notification at any point of its workflow.
C4_ActionForwarded ==
  \A d \in Flows :
    (Resolved(d) /\ ActionLike(result[d])) =>
      /\ Len(CallsTo(d, "action.doAction")) = 1
      /\ trace[d][2] = [svc |-> "action.doAction", action |-> result[d]]
      /\ Len(CallsTo(d, "notification.add")) = 0

C4_Witness ==
  \E d \in Flows : Resolved(d) /\ ActionLike(result[d]) /\ pc[d] = "done"

\* the statement of C5 as the specification has it: in the action branch
\* the handler returns early, and neither load() nor render is invoked
C5_ActionBranchReturnsEarly ==
  \A d \in Flows :
    (Resolved(d) /\ ActionLike(result[d])) =>
      /\ Len(CallsTo(d, "model.root.load")) = 0
      /\ Len(CallsTo(d, "render")) = 0

\* C5 (amended): the action branch does not return early. While doAction
\* is pending, or when it rejected, the workflow has made the remote call
\* and doAction only; once doAction resolved, model.root.load() is invoked
\* and, once that resolved, render(true), as in the notification branches:
\* every workflow that ran to its end has reloaded and re-rendered.
C5_ActionBranchReloads ==
  /\ \A d \in Flows :
       (Resolved(d) /\ ActionLike(result[d])) =>
         \/ /\ pc[d] = "doAction" \/ (pc[d] = "rejected" /\ rejectedBy[d] = "doAction")
            /\ Len(trace[d]) = 2
         \/ ReloadedAfter(d, 2)
  /\ \A d \in Flows :
       pc[d] = "done" =>
         /\ Len(CallsTo(d, "model.root.load")) = 1
         /\ Len(CallsTo(d, "render")) = 1

C5_Witness ==
  \E d \in Flows :
    /\ Resolved(d) /\ ActionLike(result[d])
    /\ pc[d] = "done"
    /\ trace[d] = <<OrmCall, DoAction(result[d]), RootLoad, Render(TRUE)>>

\* C6: when the remote call of a confirmed sync rejects, the confirm
\* callback's promise rejects with the very value the call rejected with,
\* and the workflow has made that one remote call and nothing else: no
\* notification, no doAction, no load(), no render, no second remote call.
C6_RejectionPropagates ==
  \A d \in Flows :
    rejectedBy[d] = "orm.call" =>
      /\ pc[d] = "rejected"
      /\ rejection[d] \in Errors
      /\ thrown[d] = rejection[d]
      /\ result[d] = NoValue
      /\ Len(trace[d]) = 1
      /\ trace[d][1].svc = "orm.call"

C6_Witness ==
  \E d, e \in Flows :
    /\ rejectedBy[d] = "orm.call" /\ thrown[d] = "RPCError"
    /\ rejectedBy[e] = "orm.call" /\ thrown[e] = "ConnectionLostError"

\* neither an object with a truthy type field nor a number
Malformed(v) == ~ActionLike(v) /\ v.kind \notin {"number", "NaN"}

\* the statement of C7: a result that is neither action-like nor a number
\* gets exactly one info notification and never a success notification; a
\* success notification is added only for a number greater than zero
C7_MalformedNotifiesInfo ==
  \A d \in Flows :
    Resolved(d) =>
      /\ Malformed(result[d]) =>
           /\ Len(NotificationsOfType(d, "info")) = 1
           /\ Len(NotificationsOfType(d, "success")) = 0
      /\ Len(NotificationsOfType(d, "success")) > 0 =>
           (result[d].kind = "number" /\ result[d].num > 0)

RECURSIVE OrmCallsUpTo(_)
\* the remote calls the dialogs 1..k have issued
OrmCallsUpTo(k) ==
  IF k = 0 THEN 0 ELSE Len(CallsTo(k, "orm.call")) + OrmCallsUpTo(k - 1)

\* C8: at any time the remote calls issued so far are as many as the
\* confirmations received so far, and the dialogs opened as many as the
\* triggers; a dialog issues at most one call, none before it is confirmed,
\* and each call is sync_new_records_for_accrual on saatchi.accrued_revenue
\* with one argument, the empty list of ids.
C8_OneCallPerConfirm ==
  /\ OrmCallsUpTo(MaxTriggers) = nConfirms
  /\ Len(dialogAdds) = nTriggers
  /\ \A d \in Flows :
       /\ Len(CallsTo(d, "orm.call")) <= 1
       /\ pc[d] \in {"idle", "dialog", "cancelled"} => Len(CallsTo(d, "orm.call")) = 0
       /\ \A i \in 1..Len(trace[d]) :
            trace[d][i].svc = "orm.call" =>
              /\ i = 1
              /\ trace[d][i].model = "saatchi.accrued_revenue"
              /\ trace[d][i].method = "sync_new_records_for_accrual"
              /\ trace[d][i].args = << <<>> >>

C8_Witness ==
  /\ nTriggers = 2 /\ nConfirms = 2 /\ OrmCallsUpTo(MaxTriggers) = 2
  /\ \E d, e \in Flows :
       /\ pc[d] = "rejected" /\ rejectedBy[d] = "orm.call"
       /\ pc[e] = "done"

\* the clicks the step dispatches on header h
Dispatched(h) == clicks'[h] - clicks[h]

\* C9: one onUnfoldAllClick dispatches exactly one click on each header
\* that has content and shows fa-caret-right, and none on any other header.
C9_UnfoldClicksFolded ==
  [][(nOps' = nOps + 1 /\ lastOp' = "unfoldAll") =>
       \A h \in groupHeaders :
         Dispatched(h) =
           IF hasContent[h] /\ caret[h] = "fa-caret-right" THEN 1 ELSE 0]_vars

C9_Witness ==
  /\ nOps = 1 /\ lastOp = "unfoldAll"
  /\ \E h \in groupHeaders : hasContent[h] /\ clicks[h] = 1
  /\ \E h \in groupHeaders : hasContent[h] /\ caret[h] = "fa-caret-down" /\ clicks[h] = 0
  /\ \E h \in groupHeaders : ~hasContent[h] /\ caret[h] = "fa-caret-right" /\ clicks[h] = 0

\* C10: one onFoldAllClick dispatches exactly one click on each header
\* that has content and shows fa-caret-down, and none on any other header.
C10_FoldClicksUnfolded ==
  [][(nOps' = nOps + 1 /\ lastOp' = "foldAll") =>
       \A h \in groupHeaders :
         Dispatched(h) =
           IF hasContent[h] /\ caret[h] = "fa-caret-down" THEN 1 ELSE 0]_vars

C10_Witness ==
  /\ nOps = 1 /\ lastOp = "foldAll"
  /\ \E h \in groupHeaders : hasContent[h] /\ clicks[h] = 1
  /\ \E h \in groupHeaders : hasContent[h] /\ caret[h] = "fa-caret-right" /\ clicks[h] = 0
  /\ \E h \in groupHeaders : ~hasContent[h] /\ caret[h] = "fa-caret-down" /\ clicks[h] = 0

\* every group has content, every press so far found the host settled,
\* and the host has settled since the last one
AllSettled ==
  /\ \A h \in groupHeaders : hasContent[h]
  /\ \A i \in 1..Len(opLog) : opLog[i].settled
  /\ Settled

\* the last two presses were first, then second
LastTwo(first, second) ==
  /\ Len(opLog) >= 2
  /\ opLog[Len(opLog) - 1].op = first
  /\ opLog[Len(opLog)].op = second

\* C11: on groups that all have content, with every operation settled
\* before the next, foldAll then unfoldAll leaves every group expanded and
\* unfoldAll then foldAll leaves every group collapsed, whatever the fold
\* states were; and unfoldAll on an all-expanded set, like foldAll on an
\* all-collapsed set, dispatches no click and changes no caret.
C11_FoldUnfoldSettle ==
  /\ [](AllSettled /\ LastTwo("foldAll", "unfoldAll") =>
          \A h \in groupHeaders : caret[h] = "fa-caret-down")
  /\ [](AllSettled /\ LastTwo("unfoldAll", "foldAll") =>
          \A h \in groupHeaders : caret[h] = "fa-caret-right")
  /\ [][(/\ nOps' = nOps + 1
         /\ \A h \in groupHeaders : hasContent[h]
         /\ \/ /\ lastOp' = "unfoldAll"
               /\ \A h \in groupHeaders : caret[h] = "fa-caret-down"
            \/ /\ lastOp' = "foldAll"
               /\ \A h \in groupHeaders : caret[h] = "fa-caret-right")
        => (clicks' = clicks /\ pending' = pending /\ caret' = caret)]_vars

C11_Witness ==
  /\ AllSettled /\ LastTwo("foldAll", "unfoldAll")
  /\ Cardinality(groupHeaders) >= 2
  /\ \E h, g \in groupHeaders : clicks[h] = 2 /\ clicks[g] = 1

\* C12: nothing coordinates the sync triggers. Whatever calls are in flight,
\* the button can be pressed again (up to the model's bound) and an open
\* dialog can be confirmed, so two remote calls of one controller can be in
\* flight at once; and when the response of one of them arrives, its own
\* continuation runs (doAction or a notification, from its own result) and
\* no other dialog's workflow is touched.
C12_NoDeduplication ==
  /\ []((nTriggers < MaxTriggers /\ Len(dialogAdds) < MaxTriggers) => ENABLED OnTestClick)
  /\ [](\A d \in Flows : pc[d] = "dialog" => ENABLED Confirm(d))
  /\ [][\A d \in Flows :
          (pc[d] = "orm.call" /\ pc'[d] # "orm.call") =>
            /\ \A e \in Flows \ {d} :
                 /\ pc'[e] = pc[e]
                 /\ trace'[e] = trace[e]
                 /\ result'[e] = result[e]
                 /\ thrown'[e] = thrown[e]
            /\ pc'[d] \in {"doAction", "load", "rejected"}
            /\ pc'[d] = "doAction" =>
                 trace'[d] = trace[d] \o <<[svc |-> "action.doAction", action |-> result'[d]]>>
            /\ pc'[d] = "load" =>
                 /\ Len(trace'[d]) = Len(trace[d]) + 2
                 /\ trace'[d][2].svc = "notification.add"
                 /\ trace'[d][3].svc = "model.root.load"]_vars

C12_Witness ==
  \E d, e \in Flows :
    /\ d # e
    /\ pc[d] = "orm.call" /\ pc[e] = "orm.call"
    /\ nConfirms = 2

\* the statement of C13: whatever the interleaving of the presses with the
\* host's toggles, once the host has settled every pending click all the
\* groups with content are in the state the last press asked for
C13_SettlesToLastOp ==
  Settled =>
    /\ lastOp = "unfoldAll" => \A h \in ContentHeaders : caret[h] = "fa-caret-down"
    /\ lastOp = "foldAll" => \A h \in ContentHeaders : caret[h] = "fa-caret-right"

\* the workflow of dialog d has added a notification
Notified(d) == Len(CallsTo(d, "notification.add")) > 0

IsPrefix(t, u) == Len(t) <= Len(u) /\ SubSeq(u, 1, Len(t)) = t

\* C14: in a notification branch the calls of one confirmed sync are
\* ordered: the remote call has resolved before the notification is added,
\* the notification is added before model.root.load() is started, and
\* render(true) is called only in the step in which that load() resolves;
\* when load() rejects, render is never called for the trigger and the
\* notification stays: no call a workflow made is ever taken back.
C14_NotificationBranchOrder ==
  /\ [](\A d \in Flows :
          Notified(d) =>
            /\ Resolved(d)
            /\ Len(CallsTo(d, "notification.add")) = 1
            /\ Len(trace[d]) >= 3
            /\ trace[d][1].svc = "orm.call"
            /\ trace[d][2].svc = "notification.add"
            /\ trace[d][3].svc = "model.root.load"
            /\ Len(trace[d]) > 3 =>
                 /\ Len(trace[d]) = 4
                 /\ trace[d][4] = [svc |-> "render", force |-> TRUE]
                 /\ pc[d] = "done"
            /\ rejectedBy[d] = "load" =>
                 /\ Len(CallsTo(d, "render")) = 0
                 /\ pc[d] = "rejected"
                 /\ thrown[d] = rejection[d])
  /\ [][\A d \in Flows :
          /\ IsPrefix(trace[d], trace'[d])
          /\ (~Notified(d) /\ Notified(d)') =>
               (pc[d] = "orm.call" /\ ~Resolved(d) /\ Resolved(d)')
          /\ Len(CallsTo(d, "render")') > Len(CallsTo(d, "render")) =>
               (pc[d] = "load" /\ pc'[d] = "done" /\ rejectedBy'[d] = "none")
          /\ pc[d] = "rejected" => (pc'[d] = "rejected" /\ trace'[d] = trace[d])]_vars

C14_Witness ==
  \E d, e \in Flows :
    /\ rejectedBy[d] = "load" /\ Notified(d) /\ Len(trace[d]) = 3
    /\ pc[e] = "done" /\ Notified(e) /\ Len(trace[e]) = 4

=============================================================================
